---- MODULE Spec2Model ----
(***************************************************************************)
(* Commission models of zipline/finance/commission.py.                     *)
(*                                                                         *)
(* Money is counted in units of 1/10000 dollar, so that every constant of  *)
(* the source is an integer (0.0075 dollar = 75 units) and the arithmetic  *)
(* of the policies is exact.  Quantities are whole shares or contracts and *)
(* prices are whole dollars.                                               *)
(*                                                                         *)
(* Python values whose type the code probes (isinstance, `is None`) or     *)
(* converts (float()) are records tagged with their Python type.           *)
(***************************************************************************)
EXTENDS Integers, Sequences, FiniteSets, TLC

VARIABLES
    policy,   \* the commission model instance, or NoPolicy before construction
    ctor,     \* the last constructor call: its arguments and whether it raised
    orders,   \* order id -> the order's running state, kept by the caller
    txns,     \* order id -> the transactions priced for the order so far
    charges,  \* order id -> the charges calculate returned for the order so far
    last      \* the last calculate call: its arguments, the rate it used, its result

vars == <<policy, ctor, orders, txns, charges, last>>

----------------------------------------------------------------------------
(* Bounds and input sets                                                   *)

MaxCalls == 3
MaxQty == 2
MaxPrice == 2

OrderIds == {1, 2}
Quantities == 1 .. MaxQty
FillPrices == {1, 2}
SnapPrices == 0 .. MaxPrice
SnapAmounts == (0 - MaxQty) .. MaxQty
SnapCommissions == {0, 4000, 10000, 20000}
RootSymbols == {"ES", "ZZ"}
Costs == {0, 4000}
Minimums == {0, 10000}

----------------------------------------------------------------------------
(* Python values                                                           *)

None == [type |-> "NoneType"]
Omitted == [type |-> "omitted"]
PyFloat(x) == [type |-> "float", val |-> x]
PyInt(x) == [type |-> "int", val |-> x]
PyStr(s) == [type |-> "str", val |-> s]
PyDict(d) == [type |-> "dict", val |-> d]

isinstance(v, t) == v.type = t

Abs(x) == IF x < 0 THEN 0 - x ELSE x

Max(a, b) == IF b > a THEN b ELSE a

\* dict.get(key, default)
get(d, key, default) == IF key \in DOMAIN d THEN d[key] ELSE default

\* The strings float() parses, with the value each parses to.
ParsedStrings == [s \in {"0.4"} |-> 4000]

\* float(x) succeeds on an int, a float and a string holding a number; it raises
\* TypeError on None or a dict and ValueError on any other string.
FloatRaises(x) ==
    \/ x.type \in {"NoneType", "dict"}
    \/ x.type = "str" /\ x.val \notin DOMAIN ParsedStrings

ToFloat(x) ==
    IF x.type = "str" THEN PyFloat(ParsedStrings[x.val]) ELSE PyFloat(x.val)

----------------------------------------------------------------------------
(* Module constants                                                        *)

DEFAULT_PER_SHARE_COST == 75
DEFAULT_PER_DOLLAR_COST == 15
DEFAULT_MINIMUM_COST_PER_TRADE == 10000
DEFAULT_FUTURE_COST_PER_TRADE == 23500

DefaultRootSymbols ==
    {"AD", "AI", "BD", "BO", "BP", "CD", "CL", "CM", "CN", "DJ", "EC", "ED",
     "EE", "EI", "EL", "ER", "ES", "ET", "EU", "FC", "FF", "FI", "FS", "FV",
     "GC", "HG", "HO", "HU", "JE", "JY", "LB", "LC", "LH", "MB", "MD", "ME",
     "MG", "MI", "MS", "MW", "ND", "NG", "NK", "NQ", "NZ", "OA", "PA", "PB",
     "PL", "QG", "QM", "RM", "RR", "SB", "SF", "SM", "SP", "SV", "SY", "TB",
     "TN", "TS", "TU", "TY", "UB", "US", "VX", "WC", "XB", "XG", "YM", "YS"}

DEFAULT_FUTURE_COST_BY_SYMBOL == [s \in DefaultRootSymbols |-> 23500]

----------------------------------------------------------------------------
(* Classes                                                                 *)

PerUnitClasses == {"PerShare", "PerContract"}
PerTradeClasses == {"PerEquityTrade", "PerFutureTrade"}
PerDollarClasses == {"PerEquityDollar", "PerFutureDollar"}
Classes == PerUnitClasses \cup PerTradeClasses \cup PerDollarClasses

NoPolicy == [cls |-> "none"]

----------------------------------------------------------------------------
(* Constructors.  Each yields [raised, self]: whether __init__ raised, and *)
(* the instance it built otherwise.  An instance of a unit-cost class is   *)
(* [cls, cost, min_trade_cost]; `cost` stands for cost_per_share or        *)
(* cost_per_contract.  An instance of a per-trade or per-dollar class is   *)
(* [cls, cost]; `cost` stands for cost or cost_per_dollar.                 *)

Raised == [raised |-> TRUE, self |-> NoPolicy]

Built(self) == [raised |-> FALSE, self |-> self]

\* A parameter's value: the argument, or the default when it is omitted.
Arg(arg, default) == IF arg = Omitted THEN default ELSE arg

\* self.cost = float(cost)
FloatCost(cls, c) ==
    IF FloatRaises(c) THEN Raised ELSE Built([cls |-> cls, cost |-> ToFloat(c)])

\* PerShare.__init__ storing cost as given, without float().
PerShare_init_unconverted(cost, min_trade_cost) ==
    Built([cls |-> "PerShare",
           cost |-> Arg(cost, PyFloat(DEFAULT_PER_SHARE_COST)),
           min_trade_cost |-> Arg(min_trade_cost,
                                  PyFloat(DEFAULT_MINIMUM_COST_PER_TRADE))])

PerShare_init(cost, min_trade_cost) ==
    LET c == Arg(cost, PyFloat(DEFAULT_PER_SHARE_COST))
        m == Arg(min_trade_cost, PyFloat(DEFAULT_MINIMUM_COST_PER_TRADE))
    IN  IF FloatRaises(c)
        THEN Raised
        ELSE Built([cls |-> "PerShare", cost |-> ToFloat(c), min_trade_cost |-> m])

\* Both parameters are required: leaving one out is a TypeError of the call.
PerContract_init(cost, min_trade_cost) ==
    IF cost = Omitted \/ min_trade_cost = Omitted
    THEN Raised
    ELSE Built([cls |-> "PerContract",
                cost |-> IF isinstance(cost, "int") THEN ToFloat(cost) ELSE cost,
                min_trade_cost |-> min_trade_cost])

PerTradeBase_init(cls, cost) ==
    IF cost = Omitted THEN Raised ELSE FloatCost(cls, cost)

PerEquityTrade_init(cost) ==
    PerTradeBase_init("PerEquityTrade",
                      Arg(cost, PyFloat(DEFAULT_MINIMUM_COST_PER_TRADE)))

PerFutureTrade_init(cost) == PerTradeBase_init("PerFutureTrade", cost)

PerDollarBase_init(cls, cost) ==
    FloatCost(cls, Arg(cost, PyFloat(DEFAULT_PER_DOLLAR_COST)))

PerEquityDollar_init(cost) == PerDollarBase_init("PerEquityDollar", cost)

PerFutureDollar_init(cost) == PerDollarBase_init("PerFutureDollar", cost)

\* cls(cost, min_trade_cost); the classes other than the unit-cost ones take
\* no min_trade_cost, and passing one is a TypeError of the call.
construct(cls, cost, min_trade_cost) ==
    IF cls = "PerShare" THEN PerShare_init(cost, min_trade_cost)
    ELSE IF cls = "PerContract" THEN PerContract_init(cost, min_trade_cost)
    ELSE IF min_trade_cost # Omitted THEN Raised
    ELSE IF cls = "PerEquityTrade" THEN PerEquityTrade_init(cost)
    ELSE IF cls = "PerFutureTrade" THEN PerFutureTrade_init(cost)
    ELSE IF cls = "PerEquityDollar" THEN PerEquityDollar_init(cost)
    ELSE PerFutureDollar_init(cost)

----------------------------------------------------------------------------
(* calculate.  An order is [commission, filled, root_symbol, direction], a *)
(* transaction [amount, price].  Each calculate yields [rate, result]: the *)
(* cost per unit it priced with (0 for a class that has none) and the      *)
(* value it returns.                                                       *)

\* _calculate without abs(): the charge takes the sign of the amount.
PerUnit_calculate_signed(self, order, transaction, cost_per_unit) ==
    LET additional_commission == transaction.amount * cost_per_unit
    IN  IF self.min_trade_cost = None
        THEN additional_commission
        ELSE IF order.commission = 0
             THEN Max(self.min_trade_cost.val, additional_commission)
             ELSE LET per_unit_total ==
                          (order.filled * cost_per_unit) + additional_commission
                  IN  IF per_unit_total < self.min_trade_cost.val
                      THEN 0
                      ELSE per_unit_total - order.commission

\* _calculate without the threshold test: once some commission is paid, it
\* always returns per_unit_total - order.commission.
PerUnit_calculate_no_threshold(self, order, transaction, cost_per_unit) ==
    LET additional_commission == Abs(transaction.amount * cost_per_unit)
    IN  IF self.min_trade_cost = None
        THEN additional_commission
        ELSE IF order.commission = 0
             THEN Max(self.min_trade_cost.val, additional_commission)
             ELSE (order.filled * cost_per_unit) + additional_commission
                      - order.commission

\* _calculate charging the first fill its per-unit cost only, without the
\* minimum.
PerUnit_calculate_no_minimum(self, order, transaction, cost_per_unit) ==
    LET additional_commission == Abs(transaction.amount * cost_per_unit)
    IN  IF self.min_trade_cost = None
        THEN additional_commission
        ELSE IF order.commission = 0
             THEN additional_commission
             ELSE LET per_unit_total ==
                          (order.filled * cost_per_unit) + additional_commission
                  IN  IF per_unit_total < self.min_trade_cost.val
                      THEN 0
                      ELSE per_unit_total - order.commission

PerUnit_calculate(self, order, transaction, cost_per_unit) ==
    LET additional_commission == Abs(transaction.amount * cost_per_unit)
    IN  IF self.min_trade_cost = None
        THEN additional_commission
        ELSE IF order.commission = 0
             THEN Max(self.min_trade_cost.val, additional_commission)
             ELSE LET per_unit_total ==
                          (order.filled * cost_per_unit) + additional_commission
                  IN  IF per_unit_total < self.min_trade_cost.val
                      THEN 0
                      ELSE per_unit_total - order.commission

PerShare_calculate(self, order, transaction) ==
    [rate |-> self.cost.val,
     result |-> PerUnit_calculate(self, order, transaction, self.cost.val)]

\* The lookup with the default table ahead of the user's table.
PerContract_cost_per_contract_default_first(self, order) ==
    IF isinstance(self.cost, "float")
    THEN self.cost.val
    ELSE LET root_symbol == order.root_symbol
             backup_cost == get(self.cost.val, root_symbol,
                                DEFAULT_FUTURE_COST_PER_TRADE)
         IN  get(DEFAULT_FUTURE_COST_BY_SYMBOL, root_symbol, backup_cost)

\* The lookup with the root symbol kept on the instance and read before it is
\* refreshed: each call prices with the symbol of the call before it.
PerContract_cost_per_contract_stale(self, order) ==
    IF isinstance(self.cost, "float")
    THEN self.cost.val
    ELSE LET root_symbol == IF last.called THEN last.order.root_symbol
                            ELSE order.root_symbol
             backup_cost == get(DEFAULT_FUTURE_COST_BY_SYMBOL, root_symbol,
                                DEFAULT_FUTURE_COST_PER_TRADE)
         IN  get(self.cost.val, root_symbol, backup_cost)

PerContract_cost_per_contract(self, order) ==
    IF isinstance(self.cost, "float")
    THEN self.cost.val
    ELSE LET root_symbol == order.root_symbol
             backup_cost == get(DEFAULT_FUTURE_COST_BY_SYMBOL, root_symbol,
                                DEFAULT_FUTURE_COST_PER_TRADE)
         IN  get(self.cost.val, root_symbol, backup_cost)

PerContract_calculate(self, order, transaction) ==
    LET cost_per_contract == PerContract_cost_per_contract(self, order)
    IN  [rate |-> cost_per_contract,
         result |-> PerUnit_calculate(self, order, transaction, cost_per_contract)]

\* calculate without the test of order.commission: the fee on every call.
PerTradeBase_calculate_every_call(self, order, transaction) ==
    [rate |-> 0, result |-> self.cost.val]

PerTradeBase_calculate(self, order, transaction) ==
    [rate |-> 0,
     result |-> IF order.commission = 0 THEN self.cost.val ELSE 0]

\* calculate without abs(): a sell is charged a negative commission.
PerDollarBase_calculate_signed(self, order, transaction) ==
    LET cost_per_share == transaction.price * self.cost.val
    IN  [rate |-> 0, result |-> transaction.amount * cost_per_share]

PerDollarBase_calculate(self, order, transaction) ==
    LET cost_per_share == transaction.price * self.cost.val
    IN  [rate |-> 0, result |-> Abs(transaction.amount) * cost_per_share]

\* commission_model.calculate(order, transaction): Python's method dispatch.
calculate(self, order, transaction) ==
    CASE self.cls = "PerShare" -> PerShare_calculate(self, order, transaction)
      [] self.cls = "PerContract" -> PerContract_calculate(self, order, transaction)
      [] self.cls \in PerTradeClasses -> PerTradeBase_calculate(self, order, transaction)
      [] self.cls \in PerDollarClasses -> PerDollarBase_calculate(self, order, transaction)

\* The configurations calculate does arithmetic on: a float rate (or, for
\* PerContract, a table of rates) and a minimum that is None or a number.
Numeric(v) == v.type \in {"float", "int"}

Computable(self) ==
    /\ self # NoPolicy
    /\ \/ Numeric(self.cost)
       \/ self.cls = "PerContract" /\ isinstance(self.cost, "dict")
    /\ self.cls \in PerUnitClasses =>
           (self.min_trade_cost = None \/ Numeric(self.min_trade_cost))

----------------------------------------------------------------------------
(* Inputs                                                                  *)

\* The tables a caller gives PerContract: root symbol -> cost per contract.
UserTables == {[s \in {"ES"} |-> 4000], [s \in {"ZZ"} |-> 4000]}

\* The arguments the documentation of the classes allows: a cost >= 0 (for
\* PerContract a number or a table) and a minimum that is None or >= 0.
CostArgs(cls) ==
    {PyFloat(c) : c \in Costs}
        \cup (IF cls = "PerContract" THEN {PyDict(d) : d \in UserTables} ELSE {})

MinArgs(cls) ==
    IF cls \in PerUnitClasses
    THEN {None} \cup {PyFloat(m) : m \in Minimums}
    ELSE {Omitted}

\* Every argument a caller can pass, allowed or not.
AnyCostArgs ==
    {Omitted, None, PyStr("abc"), PyStr("0.4"), PyInt(0 - 10000), PyInt(10000),
     PyFloat(0 - 4000), PyFloat(4000)} \cup {PyDict(d) : d \in UserTables}

AnyMinArgs ==
    {Omitted, None, PyStr("abc"), PyInt(10000), PyFloat(0 - 10000), PyFloat(10000)}

NoCtor == [called |-> FALSE]

NoCall == [called |-> FALSE]

OrderSymbol == <<"ES", "ZZ">>

\* An order nothing has been filled or charged on yet.
NewOrder(root_symbol, direction) ==
    [commission |-> 0, filled |-> 0, root_symbol |-> root_symbol,
     direction |-> direction]

NCalls == Len(charges[1]) + Len(charges[2])

----------------------------------------------------------------------------
(* Actions                                                                 *)

\* policy = cls(cost, min_trade_cost)
Construct(cls, cost, min_trade_cost) ==
    LET made == construct(cls, cost, min_trade_cost)
    IN  /\ ~ctor.called
        /\ ctor' = [called |-> TRUE, cls |-> cls, cost |-> cost,
                    min_trade_cost |-> min_trade_cost, raised |-> made.raised]
        /\ policy' = made.self
        /\ UNCHANGED <<orders, txns, charges, last>>

\* One call policy.calculate(order, transaction) on an order and a transaction
\* of the caller's, the only call of the behaviour; nothing of the caller's
\* state is touched.
Call(order, transaction) ==
    LET got == calculate(policy, order, transaction)
    IN  /\ Computable(policy)
        /\ ~last.called
        /\ last' = [called |-> TRUE, id |-> 0, order |-> order,
                    transaction |-> transaction, rate |-> got.rate,
                    result |-> got.result]
        /\ UNCHANGED <<policy, ctor, orders, txns, charges>>

\* A fill of order o: the caller prices the transaction with the policy, then
\* adds the charge to order.commission and the amount to order.filled.
Fill(o, qty, price) ==
    LET order == orders[o]
        transaction == [amount |-> order.direction * qty, price |-> price]
        got == calculate(policy, order, transaction)
    IN  /\ Computable(policy)
        /\ NCalls < MaxCalls
        /\ last' = [called |-> TRUE, id |-> o, order |-> order,
                    transaction |-> transaction, rate |-> got.rate,
                    result |-> got.result]
        /\ orders' = [orders EXCEPT
                          ![o].commission = @ + got.result,
                          ![o].filled = @ + transaction.amount]
        /\ txns' = [txns EXCEPT ![o] = Append(@, transaction)]
        /\ charges' = [charges EXCEPT ![o] = Append(@, got.result)]
        /\ UNCHANGED <<policy, ctor>>

----------------------------------------------------------------------------
(* Specifications                                                          *)

\* A policy built from allowed arguments, and no call made yet.
InitBuilt ==
    /\ \E cls \in Classes : \E cost \in CostArgs(cls) : \E m \in MinArgs(cls) :
           /\ ctor = [called |-> TRUE, cls |-> cls, cost |-> cost,
                      min_trade_cost |-> m, raised |-> FALSE]
           /\ policy = construct(cls, cost, m).self
    /\ txns = [o \in OrderIds |-> <<>>]
    /\ charges = [o \in OrderIds |-> <<>>]
    /\ last = NoCall

\* Fills of two orders, a buy or a sell each, priced by one policy.
Init ==
    /\ InitBuilt
    /\ \E d \in [OrderIds -> {1, 0 - 1}] :
           orders = [o \in OrderIds |-> NewOrder(OrderSymbol[o], d[o])]

Next == \E o \in OrderIds : \E qty \in Quantities : \E price \in FillPrices :
            Fill(o, qty, price)

Spec == Init /\ [][Next]_vars

\* Single calls on any order and transaction.
Snapshots ==
    {[commission |-> c, filled |-> f, root_symbol |-> s, direction |-> 1] :
         c \in SnapCommissions, f \in SnapAmounts, s \in RootSymbols}

Transactions == {[amount |-> a, price |-> p] : a \in SnapAmounts, p \in SnapPrices}

InitSnap ==
    /\ InitBuilt
    /\ orders = [o \in OrderIds |-> NewOrder(OrderSymbol[o], 1)]

NextSnap == \E order \in Snapshots : \E transaction \in Transactions :
                Call(order, transaction)

SpecSnap == InitSnap /\ [][NextSnap]_vars

\* Construction from any arguments, then single calls on what was built.
InitCtor ==
    /\ policy = NoPolicy
    /\ ctor = NoCtor
    /\ orders = [o \in OrderIds |-> NewOrder(OrderSymbol[o], 1)]
    /\ txns = [o \in OrderIds |-> <<>>]
    /\ charges = [o \in OrderIds |-> <<>>]
    /\ last = NoCall

NextCtor ==
    \/ \E cls \in Classes : \E cost \in AnyCostArgs : \E m \in AnyMinArgs :
           Construct(cls, cost, m)
    \/ \E order \in Snapshots : \E transaction \in Transactions :
           Call(order, transaction)

SpecCtor == InitCtor /\ [][NextCtor]_vars

----------------------------------------------------------------------------
(* What the properties are stated with                                     *)

RECURSIVE SumSeq(_)
SumSeq(q) == IF q = <<>> THEN 0 ELSE Head(q) + SumSeq(Tail(q))

\* The sum of the magnitudes of the amounts of the transactions ts.
RECURSIVE SumAbsAmounts(_)
SumAbsAmounts(ts) ==
    IF ts = <<>> THEN 0 ELSE Abs(Head(ts).amount) + SumAbsAmounts(Tail(ts))

RECURSIVE SumAmounts(_)
SumAmounts(ts) ==
    IF ts = <<>> THEN 0 ELSE Head(ts).amount + SumAmounts(Tail(ts))

\* The rate the specification gives a unit-cost policy for an order of the
\* root symbol: the configured number, else the user's entry, else the default
\* table's entry, else the scalar default.
ClaimedRate(self, root_symbol) ==
    IF self.cost.type = "float" THEN self.cost.val
    ELSE IF root_symbol \in DOMAIN self.cost.val THEN self.cost.val[root_symbol]
    ELSE IF root_symbol \in DOMAIN DEFAULT_FUTURE_COST_BY_SYMBOL
         THEN DEFAULT_FUTURE_COST_BY_SYMBOL[root_symbol]
    ELSE DEFAULT_FUTURE_COST_PER_TRADE

UnitCostWithMinimum ==
    policy.cls \in PerUnitClasses /\ policy.min_trade_cost # None

UnitCostWithoutMinimum ==
    policy.cls \in PerUnitClasses /\ policy.min_trade_cost = None

\* The charges an order gets when the policy prices its transactions ts alone,
\* from the order's state `order` on.
RECURSIVE AloneCharges(_, _, _)
AloneCharges(self, order, ts) ==
    IF ts = <<>>
    THEN <<>>
    ELSE LET charge == calculate(self, order, Head(ts)).result
             after == [order EXCEPT !.commission = @ + charge,
                                    !.filled = @ + Head(ts).amount]
         IN  <<charge>> \o AloneCharges(self, after, Tail(ts))

NonZero(q) == {i \in 1 .. Len(q) : q[i] # 0}

----------------------------------------------------------------------------
(* C1: unit-cost policy with a minimum m: after every prefix of an order's *)
(* fills (all buys or all sells), the sum of the charges returned so far   *)
(* equals max(m, |cumulative filled quantity| * rate).  The code computes  *)
(* the running total from the signed order.filled, so a sell order breaks  *)
(* it.                                                                     *)
C1_ChargesSumToMaxOfMinimumAndUnitCost ==
    UnitCostWithMinimum =>
        \A o \in OrderIds :
            Len(charges[o]) >= 1 =>
                SumSeq(charges[o]) =
                    Max(policy.min_trade_cost.val,
                        Abs(orders[o].filled)
                            * ClaimedRate(policy, orders[o].root_symbol))

\* The same over buy orders only, which the code satisfies.
C1_BuyOrdersOnly ==
    UnitCostWithMinimum =>
        \A o \in OrderIds :
            (Len(charges[o]) >= 1 /\ orders[o].direction = 1) =>
                SumSeq(charges[o]) =
                    Max(policy.min_trade_cost.val,
                        orders[o].filled
                            * ClaimedRate(policy, orders[o].root_symbol))

\* A call within the documented input domain: nothing negative.
NonNegativeCall ==
    /\ last.called
    /\ last.order.commission >= 0
    /\ last.order.filled >= 0
    /\ last.transaction.amount >= 0
    /\ last.transaction.price >= 0

(* C2: every call on an order with commission >= 0 and filled >= 0 and a   *)
(* transaction with amount >= 0 and price >= 0 returns a value >= 0, for   *)
(* every policy, whatever the values of the order are.                     *)
C2_ResultNonNegativeOnAnySnapshot == NonNegativeCall => last.result >= 0

\* order.commission is no more than a unit-cost policy with a minimum has
\* charged for order.filled units: max(m, filled * rate).
WithinAccrued ==
    UnitCostWithMinimum =>
        last.order.commission <=
            Max(policy.min_trade_cost.val, last.order.filled * last.rate)

(* C2, amended: the same, provided that under a unit-cost policy with a    *)
(* minimum m order.commission is at most max(m, order.filled * rate), as   *)
(* it is when the commission was accumulated from the policy's own         *)
(* charges.                                                                *)
C2_ResultNonNegativeWithinAccrued ==
    (NonNegativeCall /\ WithinAccrued) => last.result >= 0

\* A later fill that crosses the minimum and is charged the excess.
C2_Witness ==
    /\ NonNegativeCall
    /\ WithinAccrued
    /\ UnitCostWithMinimum
    /\ policy.min_trade_cost.val > 0
    /\ last.order.commission = policy.min_trade_cost.val
    /\ last.order.filled > 0
    /\ last.result > 0

(* C3: flat-trade policy, any cost >= 0: over the calls of one order,      *)
(* exactly one call returns a non-zero result, that result is the cost, it *)
(* is the first call, and every later call returns 0.                      *)
C3_ExactlyOneNonZeroCharge ==
    policy.cls \in PerTradeClasses =>
        \A o \in OrderIds :
            Len(charges[o]) >= 1 =>
                /\ NonZero(charges[o]) = {1}
                /\ charges[o][1] = policy.cost.val

(* C3, amended: with cost > 0 the above; with cost = 0 every call returns  *)
(* 0, so no call returns a non-zero result.                                *)
C3_FeeChargedOnFirstCallOnly ==
    policy.cls \in PerTradeClasses =>
        \A o \in OrderIds :
            Len(charges[o]) >= 1 =>
                /\ charges[o][1] = policy.cost.val
                /\ NonZero(charges[o]) = IF policy.cost.val > 0 THEN {1} ELSE {}

\* A second call on an order that has paid its fee.
C3_Witness ==
    /\ policy.cls \in PerTradeClasses
    /\ policy.cost.val > 0
    /\ last.called
    /\ last.id = 1
    /\ Len(charges[1]) >= 2
    /\ last.order.commission = policy.cost.val
    /\ last.result = 0

(* C4: under every policy, order.commission never decreases from one call  *)
(* to the next, sell orders included.                                      *)
C4_CommissionNeverDecreases ==
    [][\A o \in OrderIds : orders'[o].commission >= orders[o].commission]_vars

\* The same over buy orders only, which the code satisfies.
C4_BuyOrdersOnly ==
    [][\A o \in OrderIds :
           orders[o].direction = 1 =>
               orders'[o].commission >= orders[o].commission]_vars

(* C5: a transaction with amount = 0 is charged exactly 0 under every      *)
(* policy, for every order, a fresh one included.                          *)
C5_ZeroAmountChargesZero ==
    (last.called /\ last.transaction.amount = 0) => last.result = 0

(* C5, amended: a transaction with amount = 0 never raises; it is charged  *)
(* 0 under a unit-cost policy without a minimum and under a proportional-  *)
(* value policy; under a flat-trade policy it is charged the cost when     *)
(* order.commission = 0 and 0 otherwise; under a unit-cost policy with a   *)
(* minimum m it is charged m when order.commission = 0, and otherwise 0    *)
(* when order.filled * rate < m and order.filled * rate - order.commission *)
(* when not.                                                               *)
C5_ZeroAmountCharge ==
    (last.called /\ last.transaction.amount = 0) =>
        /\ last.result \in Int
        /\ (UnitCostWithoutMinimum \/ policy.cls \in PerDollarClasses) =>
               last.result = 0
        /\ policy.cls \in PerTradeClasses =>
               last.result = IF last.order.commission = 0
                             THEN policy.cost.val ELSE 0
        /\ UnitCostWithMinimum =>
               LET m == policy.min_trade_cost.val
                   accrued == last.order.filled
                                  * ClaimedRate(policy, last.order.root_symbol)
               IN  last.result =
                       IF last.order.commission = 0 THEN m
                       ELSE IF accrued < m THEN 0
                       ELSE accrued - last.order.commission

\* A fresh order charged the minimum on a transaction of amount 0.
C5_Witness ==
    /\ last.called
    /\ last.transaction.amount = 0
    /\ UnitCostWithMinimum
    /\ last.order.commission = 0
    /\ last.order.filled = 0
    /\ last.result = policy.min_trade_cost.val
    /\ last.result > 0

\* A cost, or a minimum, that is no number or is negative.
BadCost(v) ==
    /\ v # Omitted
    /\ \/ v.type \notin {"int", "float", "dict"}
       \/ v.type \in {"int", "float"} /\ v.val < 0

BadMinimum(v) ==
    /\ v \notin {Omitted, None}
    /\ \/ v.type \notin {"int", "float"}
       \/ v.val < 0

(* C6: constructing a policy with a cost or a minimum that is no number or *)
(* is negative fails at construction, so no instance holds such a value    *)
(* and no call computes with one.                                          *)
C6_BadConfigurationFailsAtConstruction ==
    (ctor.called /\ (BadCost(ctor.cost) \/ BadMinimum(ctor.min_trade_cost))) =>
        ctor.raised

\* The call cls(cost, min_trade_cost) does not fit the signature of the class.
SignatureMismatch ==
    \/ ctor.cls = "PerContract"
           /\ (ctor.cost = Omitted \/ ctor.min_trade_cost = Omitted)
    \/ ctor.cls = "PerFutureTrade" /\ ctor.cost = Omitted
    \/ ctor.cls \notin PerUnitClasses /\ ctor.min_trade_cost # Omitted

\* The cost is one float() does not convert: None, a table, or a string that
\* holds no number.
CostNotConvertible ==
    \/ ctor.cost.type \in {"NoneType", "dict"}
    \/ ctor.cost.type = "str" /\ ctor.cost.val # "0.4"

(* C6, amended: construction fails only on a call that does not fit the    *)
(* signature and, for every class but PerContract, on a cost that float()  *)
(* does not convert.  A negative cost, a cost given as a numeric string,   *)
(* any cost of PerContract and any min_trade_cost are accepted: the        *)
(* minimum is stored as given, and calculate computes with a negative      *)
(* cost.                                                                   *)
C6_ConstructionFailsOnlyWhereFloatFails ==
    ctor.called =>
        /\ ctor.raised <=>
               (SignatureMismatch
                    \/ (ctor.cls # "PerContract" /\ CostNotConvertible))
        /\ ~ctor.raised =>
               /\ policy.cls = ctor.cls
               /\ ctor.cls # "PerContract" => policy.cost.type = "float"
               /\ (ctor.cls = "PerContract" /\ ctor.cost.type # "int") =>
                      policy.cost = ctor.cost
               /\ (ctor.cls \in PerUnitClasses /\ ctor.min_trade_cost # Omitted) =>
                      policy.min_trade_cost = ctor.min_trade_cost

\* A policy built with a negative cost, a call of which charged a negative
\* commission.
C6_Witness ==
    /\ ctor.called
    /\ ~ctor.raised
    /\ ctor.cls = "PerShare"
    /\ BadCost(ctor.cost)
    /\ policy.cost.val < 0
    /\ last.called
    /\ last.rate < 0
    /\ last.result < 0

(* C7: PerContract prices every call with the configured number when the   *)
(* cost is a number, and otherwise with the user table's entry for the     *)
(* order's root symbol, else the default table's entry, else the scalar    *)
(* default; the rate of a call depends on that call's symbol only.         *)
C7_RateResolvedPerCall ==
    (policy.cls = "PerContract" /\ last.called) =>
        last.rate = ClaimedRate(policy, last.order.root_symbol)

\* A call on an order whose symbol is not in the user's table, after a call
\* on an order whose symbol is, at another rate.
C7_Witness ==
    /\ policy.cls = "PerContract"
    /\ policy.cost.type = "dict"
    /\ last.called
    /\ last.order.root_symbol \notin DOMAIN policy.cost.val
    /\ \E o \in OrderIds :
           /\ o # last.id
           /\ Len(charges[o]) >= 1
           /\ orders[o].root_symbol \in DOMAIN policy.cost.val
           /\ ClaimedRate(policy, orders[o].root_symbol) # last.rate

(* C8: a proportional-value policy returns abs(amount) * price *           *)
(* cost_per_dollar on every call, whatever order.commission and            *)
(* order.filled are, for buys and sells alike.                             *)
C8_ProportionalToValue ==
    (policy.cls \in PerDollarClasses /\ last.called) =>
        last.result =
            Abs(last.transaction.amount) * last.transaction.price
                * policy.cost.val

\* A sell priced on an order that has commission and fills behind it.
C8_Witness ==
    /\ policy.cls \in PerDollarClasses
    /\ policy.cost.val > 0
    /\ last.called
    /\ last.transaction.amount < 0
    /\ last.transaction.price > 1
    /\ last.order.commission > 0
    /\ last.order.filled # 0
    /\ last.result > 0

(* C9: a unit-cost policy without a minimum returns abs(amount) * rate on  *)
(* every call, so the charges of an order sum to the rate times the sum of *)
(* the magnitudes of its fills.                                            *)
C9_LinearInAmount ==
    UnitCostWithoutMinimum =>
        \A o \in OrderIds :
            LET rate == ClaimedRate(policy, orders[o].root_symbol)
            IN  /\ \A i \in 1 .. Len(charges[o]) :
                       charges[o][i] = Abs(txns[o][i].amount) * rate
                /\ SumSeq(charges[o]) = rate * SumAbsAmounts(txns[o])

\* The second fill of a sell order, at a rate above 0.
C9_Witness ==
    /\ UnitCostWithoutMinimum
    /\ last.called
    /\ last.rate > 0
    /\ last.transaction.amount < 0
    /\ last.order.filled < 0
    /\ last.order.commission > 0
    /\ last.result > 0

(* C10: one policy pricing several orders whose calls interleave: every    *)
(* order gets the charges it gets when priced alone, the policy stays as   *)
(* it was built, and each order holds what its caller accumulated and      *)
(* nothing else.                                                           *)
C10_InterleavingChangesNothing ==
    /\ policy = construct(ctor.cls, ctor.cost, ctor.min_trade_cost).self
    /\ \A o \in OrderIds :
           LET fresh == NewOrder(OrderSymbol[o], orders[o].direction)
           IN  /\ charges[o] = AloneCharges(policy, fresh, txns[o])
               /\ orders[o] = [fresh EXCEPT !.commission = SumSeq(charges[o]),
                                            !.filled = SumAmounts(txns[o])]

\* Both orders priced, at different rates, the one priced last for the second
\* time.
C10_Witness ==
    /\ policy.cls = "PerContract"
    /\ last.called
    /\ Len(charges[last.id]) >= 2
    /\ \E o \in OrderIds :
           /\ o # last.id
           /\ Len(charges[o]) >= 1
           /\ ClaimedRate(policy, orders[o].root_symbol) # last.rate
           /\ charges[o][1] # charges[last.id][1]

====
